---- MODULE Spec2Model ----
(***************************************************************************)
(* State-machine model of get_images.py: download_tesscuts (the batch      *)
(* driver) and download_tesscuts_single (the per-target pipeline: validate *)
(* options, query the archive, check identity, dedup against the disk,     *)
(* bulk fetch, write one FITS file per payload).                          *)
(*                                                                         *)
(* Python strings that the code parses or formats are modelled by what     *)
(* they contain: a TIC number and a sector label are sequences of decimal  *)
(* digits, so "07" and "7" are different strings with the same value.      *)
(***************************************************************************)
EXTENDS Integers, Sequences, FiniteSets, TLC

VARIABLES
    TICs,      \* first argument of download_tesscuts (a Python value)
    nThreads,  \* n_jobs of the joblib pool
    kwargs,    \* options handed on to download_tesscuts_single
    catalog,   \* the archive: search result table per queried TIC number
    faulty,    \* whether search, download and to_fits may raise on their own
    outdir,    \* the outputdir path on disk: "absent", "dir" or "file"
    files,     \* the FITS files under outputdir
    drv,       \* position of download_tesscuts
    err,       \* the exception that left download_tesscuts, if any
    job,       \* job[i]: the i-th call of download_tesscuts_single
    run,       \* how many times the caller has invoked download_tesscuts
    prev,      \* what the previous invocation left behind
    start      \* the disk as it was when the first invocation began

vars == <<TICs, nThreads, kwargs, catalog, faulty, outdir, files, drv, err, job, run, prev, start>>

----------------------------------------------------------------------------
(* Bounds of the model.                                                    *)

\* largest value given to max_tries, max_counter and max_tries_MASTquery
MaxCap == 2
\* most rows a search result table holds for a single-target call
MaxRows == 3
\* most entries of a TICs collection
MaxTargets == 2
\* most consecutive invocations of download_tesscuts by one caller
MaxRuns == 2

\* the write loop's literal retry cap
WriteCap == 5

----------------------------------------------------------------------------
(* Python values and strings.                                              *)

PyStr(digits) == [type |-> "str", val |-> digits]
PyInt(digits) == [type |-> "int", val |-> digits]

RECURSIVE DigitsToInt(_)
\* int("07") = 7: the value of a digit string
DigitsToInt(d) ==
    IF Len(d) = 0 THEN 0
    ELSE 10 * DigitsToInt(SubSeq(d, 1, Len(d) - 1)) + d[Len(d)]

RECURSIVE IntToDigits(_)
\* f"{7}" = "7": Python's decimal formatting of a non-negative int
IntToDigits(n) ==
    IF n < 10 THEN <<n>>
    ELSE Append(IntToDigits(n \div 10), n % 10)

\* "TIC 1": a targetid string of the archive, split at the places the
\* regular expression 'TIC (\d+)' looks at
TargetId(head, num, rest) == [head |-> head, num |-> num, rest |-> rest]

\* "TESS Sector 07": an observation descriptor, split the same way
Observation(head, num, rest) == [head |-> head, num |-> num, rest |-> rest]

\* re.match(pattern + ' (\d+)', text): anchored at the start only, so what
\* follows the digits is ignored; None when the head or the digits are missing
ReMatch(head, text) ==
    IF text.head = head /\ Len(text.num) > 0
    THEN [matched |-> TRUE, group1 |-> text.num]
    ELSE [matched |-> FALSE, group1 |-> <<>>]

\* outputdir/Path(f'tess{TIC}_sec{s}.fits'): the digits of TIC and of s are
\* the only varying parts of the name
OutputName(tic, s) == [tic |-> tic, sec |-> s]

\* an existence test that looks at the target's part of the name only
ExistsIgnoringSector(fs, name) == \E f \in fs : f.name.tic = name.tic

\* file.exists() for a name under outputdir
Exists(fs, name) == \E f \in fs : f.name = name

----------------------------------------------------------------------------
(* The archive (lightkurve / MAST), seen through its two calls.            *)

TicHead == "TIC "
SectorHead == "TESS Sector "

\* sector label as the archive prints it: "7" or zero-padded "07"
SectorLabel(n, fmt) ==
    IF fmt = "padded" /\ n < 10 THEN <<0>> \o IntToDigits(n) ELSE IntToDigits(n)

Row(id, obs) == [targetid |-> id, observation |-> obs]

\* a table of n rows for TIC number t, sectors 1..n in the archive's order,
\* row `bad` (0: none) carrying a descriptor of another mission
SectorTable(t, n, fmt, bad) ==
    [r \in 1..n |->
        Row(TargetId(TicHead, t, ""),
            IF r = bad THEN Observation("Kepler Quarter ", SectorLabel(r, fmt), "")
                       ELSE Observation(SectorHead, SectorLabel(r, fmt), ""))]

\* one-sector tables whose targetid column is not the plain requested id
IdentityTables(t) ==
    LET obs(n) == Observation(SectorHead, SectorLabel(n, "plain"), "")
        other == IF t = <<1>> THEN <<2>> ELSE <<1>>
    IN  { <<Row(TargetId(TicHead, other, ""), obs(1))>>,
          <<Row(TargetId(TicHead, t, ""), obs(1)), Row(TargetId(TicHead, other, ""), obs(2))>>,
          <<Row(TargetId("", t, ""), obs(1))>>,
          <<Row(TargetId(TicHead, t, " b"), obs(1))>> }

\* tesscuts.download_all(cutout_size=imsize) when it succeeds: one target
\* pixel file per row of the search result, in the rows' order, whose
\* integer sector is the number the row's descriptor prints
DownloadAll(tesscuts) ==
    [r \in 1..Len(tesscuts) |->
        [sector |-> DigitsToInt(tesscuts[r].observation.num), TICID |-> <<>>]]

\* the exceptions download_all raises, by the class the code tells apart
FetchErrors == {"TypeError", "SearchError", "HTTPError"}

----------------------------------------------------------------------------
(* download_tesscuts_single: one record per call.                          *)

NewJob(TIC, pc0, marker0) ==
    [pc |-> pc0, TIC |-> TIC, outcome |-> "",
     tries_query |-> 0, tesscuts |-> <<>>, sectors |-> <<>>,
     tries |-> 0, tpfs |-> <<>>, k |-> 0, counter |-> 0,
     \* what the call has done so far
     marker |-> marker0, nSearch |-> 0, nSearchFail |-> 0,
     fetchLog |-> <<>>, nToFits |-> 0, lastTried |-> 0, failedWrite |-> FALSE,
     wrote |-> {}]

Returned(j, why) == [j EXCEPT !.pc = "returned", !.outcome = why]
Raised(j, exc) == [j EXCEPT !.pc = "raised", !.outcome = exc]

IsStr(v) == v.type = "str"

\* lines 43-55: the isinstance checks and the look at outputdir
ValidateOutcome(TIC, dir) ==
    IF ~IsStr(TIC) THEN "TypeError:TIC"
    ELSE IF kwargs.outputdir.type # "Path" THEN "TypeError:outputdir"
    ELSE IF kwargs.imsize.type # "int" THEN "TypeError:imsize"
    ELSE IF dir # "absent"
         THEN IF dir # "dir" THEN "ValueError:outputdir" ELSE "query"
    ELSE "mkdir"

ConfigErrors ==
    {"TypeError:TICs", "TypeError:TIC", "TypeError:outputdir",
     "TypeError:imsize", "ValueError:outputdir"}

\* the checks made only once the search has answered
ValidateAfterQuery(i) ==
    /\ drv = "running"
    /\ \/ /\ job[i].pc = "validate"
          /\ job' = [job EXCEPT ![i] = [@ EXCEPT !.pc = "query", !.tries_query = 1]]
       \/ /\ job[i].pc = "resolve"
          /\ ValidateOutcome(job[i].TIC, outdir) \in ConfigErrors
          /\ job' = [job EXCEPT ![i] = Raised(@, ValidateOutcome(job[i].TIC, outdir))]
    /\ UNCHANGED <<TICs, nThreads, kwargs, catalog, faulty, outdir, files, drv, err, run, prev, start>>

\* lines 43-55 as one step of the call
Validate(i) ==
    /\ drv = "running"
    /\ job[i].pc = "validate"
    /\ LET o == ValidateOutcome(job[i].TIC, outdir)
       IN  job' = [job EXCEPT ![i] =
                IF o \in ConfigErrors THEN Raised(@, o)
                ELSE IF o = "query" THEN [@ EXCEPT !.pc = "query", !.tries_query = 1]
                ELSE [@ EXCEPT !.pc = "mkdir"]]
    /\ UNCHANGED <<TICs, nThreads, kwargs, catalog, faulty, outdir, files, drv, err, run, prev, start>>

\* line 57: outputdir.mkdir(), which raises when the path exists by now
Mkdir(i) ==
    /\ drv = "running"
    /\ job[i].pc = "mkdir"
    /\ IF outdir = "absent"
       THEN /\ outdir' = "dir"
            /\ job' = [job EXCEPT ![i] = [@ EXCEPT !.pc = "query", !.tries_query = 1]]
       ELSE /\ outdir' = outdir
            /\ job' = [job EXCEPT ![i] = Raised(@, "FileExistsError")]
    /\ UNCHANGED <<TICs, nThreads, kwargs, catalog, faulty, files, drv, err, run, prev, start>>

QueryExhaustedEarly(tries_query) == tries_query >= kwargs.max_tries_MASTquery

\* line 62
QueryExhausted(tries_query) == tries_query > kwargs.max_tries_MASTquery

\* lines 61-73: one turn of the query loop
Query(i) ==
    /\ drv = "running"
    /\ job[i].pc = "query"
    /\ IF QueryExhausted(job[i].tries_query)
       THEN job' = [job EXCEPT ![i] = Returned(@, "query_exhausted")]
       ELSE \/ job' = [job EXCEPT ![i] =
                    [@ EXCEPT !.pc = "resolve",
                              !.tesscuts = catalog[job[i].TIC.val],
                              !.nSearch = @ + 1]]
            \/ /\ faulty
               /\ job' = [job EXCEPT ![i] =
                    [@ EXCEPT !.tries_query = @ + 1,
                              !.nSearch = @ + 1,
                              !.nSearchFail = @ + 1]]
    /\ UNCHANGED <<TICs, nThreads, kwargs, catalog, faulty, outdir, files, drv, err, run, prev, start>>

\* line 80: np.unique over the targetid column
UniqueIds(tesscuts) == {tesscuts[r].targetid : r \in 1..Len(tesscuts)}

\* a parse that takes the digits of any descriptor, whatever its head
SectorsLenient(tesscuts) ==
    [r \in 1..Len(tesscuts) |->
        [matched |-> TRUE, group1 |-> tesscuts[r].observation.num]]

\* line 92: the label of every row, or no list at all when one descriptor
\* fails to match (.group(1) of None raises AttributeError)
Sectors(tesscuts) ==
    [r \in 1..Len(tesscuts) |-> ReMatch(SectorHead, tesscuts[r].observation)]

IdentityUnchecked(TIC, id) == TRUE

\* lines 86-89: the parsed id against the requested one
IdentityMatches(TIC, id) == TIC.val = ReMatch(TicHead, id).group1

\* lines 75-106: what the call makes of a search result, given the files on
\* disk: how it goes on, the labels it parsed and the rows it will request
ResolveOutcome(TIC, tesscuts, fs) ==
    LET ids == UniqueIds(tesscuts)
        id == CHOOSE x \in ids : TRUE
        sec == Sectors(tesscuts)
        labels == [r \in 1..Len(tesscuts) |-> sec[r].group1]
        present(r) == Exists(fs, OutputName(TIC.val, labels[r]))
        ind == {r \in 1..Len(tesscuts) : present(r)}
        Absent(row) == ~Exists(fs, OutputName(TIC.val, ReMatch(SectorHead, row.observation).group1))
        new == IF ind # {} THEN SelectSeq(tesscuts, Absent) ELSE tesscuts
        stop(why) == [kind |-> why, sectors |-> <<>>, tesscuts |-> tesscuts]
    IN  IF Len(tesscuts) = 0 THEN stop("no_images")
        ELSE IF Cardinality(ids) # 1 THEN stop("multiple_ids")
        ELSE IF ~ReMatch(TicHead, id).matched THEN stop("AttributeError:targetid")
        ELSE IF ~IdentityMatches(TIC, id) THEN stop("different_id")
        ELSE IF \E r \in 1..Len(tesscuts) : ~sec[r].matched
             THEN stop("AttributeError:observation")
        ELSE IF ind # {} /\ Len(new) = 0
             THEN [kind |-> "nothing_new", sectors |-> labels, tesscuts |-> new]
        ELSE [kind |-> "fetch", sectors |-> labels, tesscuts |-> new]

ResolveRaises == {"AttributeError:targetid", "AttributeError:observation"}

\* a resolution that takes an empty search result for a failed search and
\* goes back to the query loop
ResolveRetriesEmpty(i) ==
    /\ drv = "running"
    /\ job[i].pc = "resolve"
    /\ LET o == ResolveOutcome(job[i].TIC, job[i].tesscuts, files)
       IN  job' = [job EXCEPT ![i] =
                IF o.kind = "no_images"
                THEN [@ EXCEPT !.pc = "query", !.tries_query = @ + 1]
                ELSE IF o.kind \in ResolveRaises THEN Raised(@, o.kind)
                ELSE IF o.kind # "fetch"
                     THEN [Returned(@, o.kind) EXCEPT !.sectors = o.sectors,
                                                      !.tesscuts = o.tesscuts]
                ELSE [@ EXCEPT !.pc = "fetch", !.sectors = o.sectors,
                               !.tesscuts = o.tesscuts, !.tries = 1]]
    /\ UNCHANGED <<TICs, nThreads, kwargs, catalog, faulty, outdir, files, drv, err, run, prev, start>>

\* lines 75-106 as one step of the call
Resolve(i) ==
    /\ drv = "running"
    /\ job[i].pc = "resolve"
    /\ LET o == ResolveOutcome(job[i].TIC, job[i].tesscuts, files)
       IN  job' = [job EXCEPT ![i] =
                IF o.kind \in ResolveRaises THEN Raised(@, o.kind)
                ELSE IF o.kind # "fetch"
                     THEN [Returned(@, o.kind) EXCEPT !.sectors = o.sectors,
                                                      !.tesscuts = o.tesscuts]
                ELSE [@ EXCEPT !.pc = "fetch", !.sectors = o.sectors,
                               !.tesscuts = o.tesscuts, !.tries = 1]]
    /\ UNCHANGED <<TICs, nThreads, kwargs, catalog, faulty, outdir, files, drv, err, run, prev, start>>

FetchExhaustedEarly(tries) == tries >= kwargs.max_tries

\* line 111
FetchExhausted(tries) == tries > kwargs.max_tries

FetchTerminalTypeErrorOnly(e) == e = "TypeError"

\* lines 117-126: the exceptions that end the call instead of being retried
FetchTerminal(e) == e = "TypeError" \/ e = "SearchError"

\* lines 110-129: one turn of the download loop
Fetch(i) ==
    /\ drv = "running"
    /\ job[i].pc = "fetch"
    /\ IF FetchExhausted(job[i].tries)
       THEN job' = [job EXCEPT ![i] = Returned(@, "fetch_exhausted")]
       ELSE \/ job' = [job EXCEPT ![i] =
                    [@ EXCEPT !.pc = "write",
                              !.tpfs = DownloadAll(job[i].tesscuts),
                              !.k = 1, !.counter = 1,
                              !.fetchLog = Append(@, "ok")]]
            \/ \E e \in FetchErrors :
                 /\ faulty
                 /\ job' = [job EXCEPT ![i] =
                    IF FetchTerminal(e)
                    THEN [Returned(@, "fetch_" \o e) EXCEPT !.fetchLog = Append(@, e)]
                    ELSE [@ EXCEPT !.tries = @ + 1, !.fetchLog = Append(@, e)]]
    /\ UNCHANGED <<TICs, nThreads, kwargs, catalog, faulty, outdir, files, drv, err, run, prev, start>>

\* a write loop without the test of its counter
WriteNeverExhausted(counter) == FALSE

\* line 141
WriteExhausted(counter) == counter > WriteCap

\* line 134: tpf.header.set('TICID', value=TIC)
SetHeader(tpf, TIC) == [tpf EXCEPT !.TICID = TIC.val]

\* a name that leaves the TIC out
WriteNameSectorOnly(TIC, tpf) == OutputName(<<>>, IntToDigits(tpf.sector))

\* lines 135-137: the name built from the payload's own integer sector
WriteName(TIC, tpf) == OutputName(TIC.val, IntToDigits(tpf.sector))

GiveUpPayloadOnly(j) ==
    IF j.k = Len(j.tpfs) THEN Returned(j, "write_exhausted")
    ELSE [j EXCEPT !.k = @ + 1, !.counter = 1, !.nToFits = 0,
                   !.outcome = "write_exhausted"]

\* line 143: what the call does once a payload has used up its attempts
GiveUp(j) == Returned(j, "write_exhausted")

\* a loop that downloads again before each further payload
NextPayloadRefetch(j) ==
    IF j.k = Len(j.tpfs) THEN Returned(j, "saved")
    ELSE [j EXCEPT !.pc = "fetch", !.tries = 1]

\* lines 146 and 132: after a successful to_fits, on to the next payload
NextPayload(j) ==
    IF j.k = Len(j.tpfs) THEN Returned(j, "saved")
    ELSE [j EXCEPT !.k = @ + 1, !.counter = 1, !.nToFits = 0]

\* a to_fits that always writes
ToFitsNeverRefuses(fs, name) == FALSE

\* tpf.to_fits(name, overwrite=overwrite) refuses an existing file unless
\* overwrite is set
ToFitsRefuses(fs, name) == Exists(fs, name) /\ ~kwargs.overwrite

\* lines 132-155: one turn of the write loop of the current payload
Write(i) ==
    /\ drv = "running"
    /\ job[i].pc = "write"
    /\ LET j == job[i]
           tpf == SetHeader(j.tpfs[j.k], j.TIC)
           name == WriteName(j.TIC, tpf)
           tried == [j EXCEPT !.nToFits = @ + 1, !.lastTried = j.k]
           failed == [tried EXCEPT !.counter = @ + 1, !.failedWrite = TRUE]
       IN  IF WriteExhausted(j.counter)
           THEN /\ job' = [job EXCEPT ![i] = GiveUp(j)]
                /\ files' = files
           ELSE IF ToFitsRefuses(files, name)
           THEN /\ job' = [job EXCEPT ![i] = failed]
                /\ files' = files
           ELSE \/ /\ files' = {f \in files : f.name # name} \cup
                                {[name |-> name, TICID |-> tpf.TICID, by |-> i]}
                   /\ job' = [job EXCEPT ![i] =
                                NextPayload([tried EXCEPT !.wrote = @ \cup {name}])]
                \/ /\ faulty
                   /\ job' = [job EXCEPT ![i] = failed]
                   /\ files' = files
    /\ UNCHANGED <<TICs, nThreads, kwargs, catalog, faulty, outdir, drv, err, run, prev, start>>

----------------------------------------------------------------------------
(* download_tesscuts: the driver and its pool.                             *)

IsIterable(v) == v.type = "list" \/ v.type = "str"

\* lines 197-214: the checks on TICs and the choice between the single call
\* and the pool; the single call is entered without a progress line
Enter ==
    /\ drv = "called"
    /\ IF TICs.type = "int"
       THEN /\ drv' = "raised" /\ err' = "TypeError:TICs" /\ job' = <<>>
       ELSE IF TICs.type = "str"
       THEN /\ drv' = "running" /\ err' = err
            /\ job' = <<NewJob(TICs, "validate", <<>>)>>
       ELSE IF ~IsIterable(TICs)
       THEN /\ drv' = "raised" /\ err' = "TypeError:TICs" /\ job' = <<>>
       ELSE /\ drv' = "running" /\ err' = err
            /\ job' = [i \in 1..Len(TICs.val) |-> NewJob(TICs.val[i], "idle", <<>>)]
    /\ UNCHANGED <<TICs, nThreads, kwargs, catalog, faulty, outdir, files, run, prev, start>>

\* calls that hold a worker: started and not yet returned
Busy == {i \in DOMAIN job : job[i].pc \notin {"idle", "returned"}}

\* line 194: 'Working on {i+1}/{n}', for the entry at position k of n (k
\* counted from 1, so k is the code's i+1)
ProgressLine(k, n) == [num |-> k, of |-> n]

\* a progress line that prints the enumerate index as it is
DispatchZeroBased(i) ==
    /\ drv = "running"
    /\ job[i].pc = "idle"
    /\ \A h \in 1..(i - 1) : job[h].pc # "idle"
    /\ Cardinality(Busy) < nThreads
    /\ job' = [job EXCEPT ![i] =
            [@ EXCEPT !.pc = "validate",
                      !.marker = Append(@, ProgressLine(i - 1, Len(TICs.val)))]]
    /\ UNCHANGED <<TICs, nThreads, kwargs, catalog, faulty, outdir, files, drv, err, run, prev, start>>

\* lines 192-195, 214: a free worker takes the next entry, prints the
\* progress line and enters download_tesscuts_single
Dispatch(i) ==
    /\ drv = "running"
    /\ job[i].pc = "idle"
    /\ \A h \in 1..(i - 1) : job[h].pc # "idle"
    /\ Cardinality(Busy) < nThreads
    /\ job' = [job EXCEPT ![i] =
            [@ EXCEPT !.pc = "validate",
                      !.marker = Append(@, ProgressLine(i, Len(TICs.val)))]]
    /\ UNCHANGED <<TICs, nThreads, kwargs, catalog, faulty, outdir, files, drv, err, run, prev, start>>

\* an exception of a call leaves download_tesscuts; the pool's other workers
\* are stopped where they are
Propagate(i) ==
    /\ drv = "running"
    /\ job[i].pc = "raised"
    /\ drv' = "raised"
    /\ err' = job[i].outcome
    /\ UNCHANGED <<TICs, nThreads, kwargs, catalog, faulty, outdir, files, job, run, prev, start>>

\* line 216: every call has returned
Finish ==
    /\ drv = "running"
    /\ \A i \in DOMAIN job : job[i].pc = "returned"
    /\ drv' = "done"
    /\ UNCHANGED <<TICs, nThreads, kwargs, catalog, faulty, outdir, files, err, job, run, prev, start>>

\* a call during which no search, download or to_fits raised
Clean(j) ==
    /\ j.pc = "returned"
    /\ j.nSearchFail = 0
    /\ \A a \in 1..Len(j.fetchLog) : j.fetchLog[a] = "ok"
    /\ ~j.failedWrite

\* the caller invokes download_tesscuts again with the same arguments after
\* a run in which every operation succeeded
Again ==
    /\ drv = "done"
    /\ run < MaxRuns
    /\ \A i \in DOMAIN job : Clean(job[i])
    /\ run' = run + 1
    /\ prev' = [files |-> files]
    /\ drv' = "called"
    /\ job' = <<>>
    /\ UNCHANGED <<TICs, nThreads, kwargs, catalog, faulty, outdir, files, err, start>>

----------------------------------------------------------------------------
(* The sequential run, computed: what download_tesscuts leaves on a disk   *)
(* when the calls run one after the other and neither the archive nor the  *)
(* disk fails on its own.                                                  *)

RECURSIVE WriteAll(_, _, _, _)
\* lines 132-155 for payloads p, p+1, ...: a refused to_fits is refused at
\* every attempt, and the call returns
WriteAll(TIC, tpfs, p, fs) ==
    IF p > Len(tpfs) THEN fs
    ELSE LET tpf == SetHeader(tpfs[p], TIC)
             name == WriteName(TIC, tpf)
         IN  IF ToFitsRefuses(fs, name) THEN fs
             ELSE WriteAll(TIC, tpfs, p + 1,
                           {f \in fs : f.name # name} \cup
                           {[name |-> name, TICID |-> tpf.TICID, by |-> 0]})

\* lines 43-155: one whole call on disk d
RunAlone(TIC, d) ==
    LET v == ValidateOutcome(TIC, d.outdir)
        made == [d EXCEPT !.outdir = "dir"]
        o == ResolveOutcome(TIC, catalog[TIC.val], d.files)
    IN  IF v \in ConfigErrors THEN [d EXCEPT !.raised = TRUE]
        ELSE IF QueryExhausted(1) THEN made
        ELSE IF o.kind \in ResolveRaises THEN [made EXCEPT !.raised = TRUE]
        ELSE IF o.kind # "fetch" \/ FetchExhausted(1) THEN made
        ELSE [made EXCEPT !.files = WriteAll(TIC, DownloadAll(o.tesscuts), 1, d.files)]

RECURSIVE Sequential(_, _)
\* line 214 with n_jobs=1: entries i, i+1, ... in order, until one raises
Sequential(i, d) ==
    IF i > Len(TICs.val) \/ d.raised THEN d
    ELSE Sequential(i + 1, RunAlone(TICs.val[i], d))

SequentialFiles ==
    Sequential(1, [outdir |-> start.outdir, files |-> start.files, raised |-> FALSE]).files

----------------------------------------------------------------------------
(* The calls explored.                                                     *)

Caps == 1..MaxCap

\* the TIC numbers the archive is asked about
TicNumbers == {<<1>>, <<2>>}

Tables(t) ==
    {SectorTable(t, n, fmt, bad) :
        n \in 0..MaxRows, fmt \in {"plain", "padded"}, bad \in 0..MaxRows}
    \cup IdentityTables(t)

\* files an earlier session may have left under outputdir
OldFile(t, n) == [name |-> OutputName(t, IntToDigits(n)), TICID |-> t, by |-> 0]

\* one target given as a plain string (or a value that is no collection),
\* every combination of the options, an archive and a disk that may fail
InitSingle ==
    /\ TICs \in {PyStr(<<1>>), PyInt(<<1>>), [type |-> "float", val |-> <<1>>]}
    /\ nThreads = 1
    /\ kwargs \in
        [outputdir : {[type |-> "Path"], [type |-> "str"]},
         imsize : {[type |-> "int"], [type |-> "float"]},
         overwrite : BOOLEAN,
         max_tries : Caps, max_counter : Caps, max_tries_MASTquery : Caps]
    /\ catalog \in [TicNumbers -> Tables(<<1>>)]
    /\ catalog[<<2>>] = <<>>
    /\ faulty = TRUE
    /\ outdir \in {"absent", "dir", "file"}
    /\ files \in SUBSET {OldFile(<<1>>, 1), OldFile(<<1>>, 2)}

\* a collection of targets handed to the pool, the archive answering each TIC
\* number with a table of the same shape, archive and disk reliable
InitBatch ==
    /\ \E n \in 0..MaxTargets :
         TICs \in [type : {"list"},
                   val : [1..n -> {PyStr(<<1>>), PyStr(<<2>>), PyInt(<<1>>)}]]
    /\ nThreads \in {1, 4}
    /\ kwargs \in
        [outputdir : {[type |-> "Path"], [type |-> "str"]},
         imsize : {[type |-> "int"]},
         overwrite : BOOLEAN,
         max_tries : {MaxCap}, max_counter : {MaxCap}, max_tries_MASTquery : {MaxCap}]
    /\ \E n \in 0..1, fmt \in {"plain", "padded"}, bad \in 0..1 :
         catalog = [t \in TicNumbers |-> SectorTable(t, n, fmt, bad)]
    /\ faulty = FALSE
    /\ outdir \in {"absent", "dir", "file"}
    /\ files \in SUBSET {OldFile(<<1>>, 1)}

Init ==
    /\ InitSingle \/ InitBatch
    /\ outdir # "dir" => files = {}
    /\ drv = "called"
    /\ err = ""
    /\ job = <<>>
    /\ run = 1
    /\ prev = [files |-> {}]
    /\ start = [outdir |-> outdir, files |-> files]

Next ==
    \/ Enter
    \/ \E i \in DOMAIN job : Dispatch(i)
    \/ \E i \in DOMAIN job : Validate(i)
    \/ \E i \in DOMAIN job : Mkdir(i)
    \/ \E i \in DOMAIN job : Query(i)
    \/ \E i \in DOMAIN job : Resolve(i)
    \/ \E i \in DOMAIN job : Fetch(i)
    \/ \E i \in DOMAIN job : Write(i)
    \/ \E i \in DOMAIN job : Propagate(i)
    \/ Finish
    \/ Again

Spec == Init /\ [][Next]_vars

\* the single calls whose loops are followed to their end: valid options,
\* an existing outputdir, every pair of caps on the two archive loops,
\* well-formed search results, an archive and a disk that may fail at every
\* call
InitSingleLoops ==
    /\ TICs \in {PyStr(<<1>>), PyInt(<<1>>)}
    /\ nThreads = 1
    /\ kwargs \in
        [outputdir : {[type |-> "Path"]},
         imsize : {[type |-> "int"]},
         overwrite : BOOLEAN,
         max_tries : Caps, max_counter : {MaxCap}, max_tries_MASTquery : Caps]
    /\ \E n \in 0..MaxRows, fmt \in {"plain", "padded"} :
         catalog = [t \in TicNumbers |->
                        IF t = <<1>> THEN SectorTable(t, n, fmt, 0) ELSE <<>>]
    /\ faulty = TRUE
    /\ outdir = "dir"
    /\ files \in SUBSET {OldFile(<<1>>, 1)}

\* the collections of string targets followed to their end, with valid
\* options and sector labels without leading zeros
InitBatchLoops ==
    /\ \E n \in 0..MaxTargets :
         TICs \in [type : {"list"}, val : [1..n -> {PyStr(<<1>>), PyStr(<<2>>)}]]
    /\ nThreads \in {1, 4}
    /\ kwargs \in
        [outputdir : {[type |-> "Path"]},
         imsize : {[type |-> "int"]},
         overwrite : BOOLEAN,
         max_tries : {MaxCap}, max_counter : {MaxCap}, max_tries_MASTquery : {MaxCap}]
    /\ \E n \in 0..1, bad \in 0..1 :
         catalog = [t \in TicNumbers |-> SectorTable(t, n, "plain", bad)]
    /\ faulty = FALSE
    /\ outdir \in {"absent", "dir"}
    /\ files \in SUBSET {OldFile(<<1>>, 1)}

LiveInit ==
    /\ InitSingleLoops \/ InitBatchLoops
    /\ outdir # "dir" => files = {}
    /\ drv = "called"
    /\ err = ""
    /\ job = <<>>
    /\ run = 1
    /\ prev = [files |-> {}]
    /\ start = [outdir |-> outdir, files |-> files]

\* every call of the archive and of the disk returns and the workers and the
\* caller keep running: a step that can be taken is taken
LiveSpec == LiveInit /\ [][Next]_vars /\ WF_vars(Next)

----------------------------------------------------------------------------
(* Properties.                                                             *)

Jobs == DOMAIN job

\* the entry of TICs that call i was given
Requested(i) == IF TICs.type = "list" THEN TICs.val[i] ELSE TICs

\* the file the writer makes of payload p of call i
PayloadName(i, p) == OutputName(job[i].TIC.val, IntToDigits(job[i].tpfs[p].sector))

Stamped(name, tic) == \E f \in files : f.name = name /\ f.TICID = tic

\* C1 as claimed: when the write loop runs out of attempts for one payload,
\* only that payload is abandoned, so at the end of the run every other
\* payload of the fetch that the disk takes has its file, stamped with the
\* requested TIC.
C1_OnlyThatPayloadAbandoned ==
    \A i \in Jobs :
        (drv = "done" /\ job[i].outcome = "write_exhausted") =>
            \A p \in 1..Len(job[i].tpfs) :
                (p # job[i].k /\ (p < job[i].k \/ ~ToFitsRefuses(files, PayloadName(i, p))))
                    => Stamped(PayloadName(i, p), job[i].TIC.val)

\* C1 amended: when the write loop runs out of attempts for one payload the
\* call returns there: the payloads before it have their files, stamped with
\* the requested TIC, and no payload after it is ever tried.
C1_ReturnsAtExhaustedPayload ==
    \A i \in Jobs :
        job[i].outcome = "write_exhausted" =>
            /\ job[i].pc = "returned"
            /\ job[i].lastTried = job[i].k
            /\ job[i].wrote = {PayloadName(i, p) : p \in 1..(job[i].k - 1)}
            /\ \A p \in 1..(job[i].k - 1) : Stamped(PayloadName(i, p), job[i].TIC.val)

C1_Witness ==
    \E i \in Jobs :
        /\ job[i].outcome = "write_exhausted"
        /\ Len(job[i].tpfs) = 3
        /\ job[i].k = 2
        /\ drv = "done"

\* C3: the search is tried at most max_tries_MASTquery times; a call that
\* gave up on the query made exactly that many searches, all failed, and
\* fetched and wrote nothing; a search that succeeds after fewer failures
\* takes the call on to resolution with the table it returned.
C3_QueryRetryBoundary ==
    \A i \in Jobs :
        LET j == job[i] IN
        /\ j.nSearch <= kwargs.max_tries_MASTquery
        /\ j.outcome = "query_exhausted" =>
              /\ j.nSearch = kwargs.max_tries_MASTquery
              /\ j.nSearchFail = j.nSearch
              /\ j.fetchLog = <<>> /\ j.wrote = {} /\ j.lastTried = 0
        /\ j.nSearch > j.nSearchFail =>
              /\ j.nSearchFail < kwargs.max_tries_MASTquery
              /\ j.nSearch = j.nSearchFail + 1
              /\ j.pc \notin {"validate", "mkdir", "query"}
              /\ j.outcome # "query_exhausted"
              /\ j.pc = "resolve" => j.tesscuts = catalog[j.TIC.val]

C3_Witness ==
    \E i \in Jobs :
        /\ job[i].nSearchFail = 1
        /\ job[i].nSearch = 2
        /\ job[i].pc = "fetch"

\* C4: a download that raises TypeError or SearchError, at the first attempt
\* or after retried failures, is the call's last download and the call
\* writes nothing; after any other exception below the cap another attempt
\* follows.
C4_TerminalShortCircuit ==
    \A i \in Jobs :
        LET j == job[i] IN
        \A a \in 1..Len(j.fetchLog) :
            /\ j.fetchLog[a] \in {"TypeError", "SearchError"} =>
                  /\ a = Len(j.fetchLog)
                  /\ j.pc = "returned"
                  /\ j.wrote = {} /\ j.lastTried = 0
            /\ (j.fetchLog[a] \notin {"TypeError", "SearchError", "ok"} /\ a < kwargs.max_tries) =>
                  \/ a < Len(j.fetchLog)
                  \/ j.pc = "fetch" /\ j.tries = a + 1 /\ ~FetchExhausted(j.tries)

C4_Witness ==
    \E i \in Jobs :
        /\ job[i].fetchLog = <<"HTTPError", "SearchError">>
        /\ job[i].pc = "returned"

\* C5: a call downloads at most max_tries times; when every one of them
\* failed with a retried error the call returns with nothing written; a
\* download that succeeds is the last one and its result is what the write
\* loop works on.
C5_FetchRetryCap ==
    \A i \in Jobs :
        LET j == job[i]
            n == Len(j.fetchLog)
        IN
        /\ n <= kwargs.max_tries
        /\ j.outcome = "fetch_exhausted" =>
              /\ n = kwargs.max_tries
              /\ \A a \in 1..n : j.fetchLog[a] = "HTTPError"
              /\ j.wrote = {} /\ j.lastTried = 0 /\ j.pc = "returned"
        /\ \A a \in 1..n : j.fetchLog[a] = "ok" =>
              /\ a = n
              /\ j.pc \in {"write", "returned"}
              /\ j.tpfs = DownloadAll(j.tesscuts)

C5_Witness ==
    \E i \in Jobs :
        /\ job[i].fetchLog = <<"HTTPError", "ok">>
        /\ kwargs.max_tries = 2
        /\ job[i].pc = "write"

\* C6 as claimed: max_counter caps the to_fits attempts of one payload, and
\* a payload is given up exactly after max_counter failed attempts.
C6_MaxCounterIsWriteCap ==
    \A i \in Jobs :
        /\ job[i].nToFits <= kwargs.max_counter
        /\ job[i].outcome = "write_exhausted" => job[i].nToFits = kwargs.max_counter

\* C8: a search result naming several ids, or one id whose TIC number is
\* not the requested one, ends the call with no second search, no download
\* and no file; and every file a call wrote carries the TIC it was asked for.
C8_IdentityInvariant ==
    /\ \A i \in Jobs :
        LET j == job[i]
            table == catalog[j.TIC.val]
            ids == UniqueIds(table)
            mismatch ==
                /\ Len(table) > 0
                /\ \/ Cardinality(ids) # 1
                   \/ \E id \in ids : ReMatch(TicHead, id).group1 # j.TIC.val
        IN  (j.nSearch > j.nSearchFail /\ j.pc # "resolve" /\ mismatch) =>
                /\ j.pc \in {"returned", "raised"}
                /\ j.nSearch = j.nSearchFail + 1
                /\ j.fetchLog = <<>> /\ j.wrote = {} /\ j.lastTried = 0
    /\ \A f \in files : f.by # 0 => f.TICID = Requested(f.by).val

C8_Witness ==
    \E i \in Jobs :
        /\ job[i].outcome = "different_id"
        /\ job[i].pc = "returned"

Names(fs) == {f.name : f \in fs}

\* a collection of string targets with a Path outputdir that is not a file
\* and an int imsize
ValidCollection ==
    /\ TICs.type = "list"
    /\ \A i \in 1..Len(TICs.val) : IsStr(TICs.val[i])
    /\ kwargs.outputdir.type = "Path"
    /\ kwargs.imsize.type = "int"
    /\ start.outdir # "file"

\* C2 as claimed: for a collection of string targets and valid outputdir and
\* imsize, download_tesscuts never raises, whatever the archive returns, and
\* when it ends every target's call has been started and has returned.
C2_BatchNeverRaises ==
    ValidCollection =>
        /\ drv # "raised"
        /\ drv = "done" => \A i \in 1..Len(TICs.val) : job[i].pc = "returned"

\* C7 as claimed: a second run with overwrite=False after a first run in
\* which every operation succeeded downloads nothing, calls to_fits for
\* nothing and leaves the files of the first run as they were.
C7_SecondRunIdempotent ==
    (run = 2 /\ ~kwargs.overwrite) =>
        /\ \A i \in Jobs : job[i].fetchLog = <<>> /\ job[i].lastTried = 0
        /\ files = prev.files

\* C9 as claimed: for a valid collection and a reliable archive and disk, a
\* run with nThreads=4 ends, in every interleaving, with the files of the
\* sequential run from the same disk.
C9_ParallelInvariance ==
    (ValidCollection /\ ~faulty /\ run = 1 /\ nThreads = 4 /\ drv \in {"done", "raised"}) =>
        Names(files) = Names(SequentialFiles)

\* the computed sequential run is the run of the model with nThreads=1
SequentialRunAgrees ==
    (TICs.type = "list" /\ ~faulty /\ run = 1 /\ nThreads = 1 /\ drv \in {"done", "raised"}) =>
        Names(files) = Names(SequentialFiles)

NoNetwork(j) == j.nSearch = 0 /\ j.fetchLog = <<>>

\* C10 as claimed: when download_tesscuts raises a configuration error, no
\* search and no download has been made for any target of the run.
C10_ConfigErrorBeforeAnyNetwork ==
    (drv = "raised" /\ err \in ConfigErrors) => \A i \in Jobs : NoNetwork(job[i])

\* C10 amended: when download_tesscuts raises a configuration error, the
\* call that raised it has made no search and no download; no call of the
\* run has, unless the error is a non-string entry of the collection, before
\* which other entries may have run.
C10_ConfigErrorBeforeOwnNetwork ==
    (drv = "raised" /\ err \in ConfigErrors) =>
        /\ \A i \in Jobs :
              (job[i].pc = "raised" /\ job[i].outcome \in ConfigErrors) => NoNetwork(job[i])
        /\ err # "TypeError:TIC" => \A i \in Jobs : NoNetwork(job[i])

C10_Witness ==
    /\ drv = "raised"
    /\ err = "TypeError:TIC"
    /\ \E i \in Jobs : job[i].pc = "returned" /\ job[i].nSearch > 0 /\ job[i].fetchLog # <<>>

\* the name the dedup filter looked for, for row r of the rows call i requests
DedupName(i, r) ==
    OutputName(job[i].TIC.val, ReMatch(SectorHead, job[i].tesscuts[r].observation).group1)

\* C11 as claimed: for every unit of a target, the path the dedup filter
\* checks (from the label parsed out of the descriptor) is the path the
\* writer writes for the payload of that unit (from the payload's sector).
C11_FilenameAgreement ==
    \A i \in Jobs :
        \A p \in 1..Len(job[i].tpfs) : DedupName(i, p) = PayloadName(i, p)

\* the rows of a table whose dedup name is not among the files fs
RowsNotOnDisk(tic, table, fs) ==
    LET NotThere(row) ==
            \A f \in fs : f.name # OutputName(tic, ReMatch(SectorHead, row.observation).group1)
    IN  SelectSeq(table, NotThere)

\* C12: when a call leaves resolution to fetch or to skip for lack of new
\* units, the rows it keeps are exactly the rows of the search result whose
\* output path is not on disk at that moment, in the result's order; it
\* skips exactly when no row is left, and a call that skipped made no
\* download and no to_fits call.
C12_DedupFilter ==
    /\ [][\A i \in (DOMAIN job) \cap (DOMAIN job') :
            (/\ job[i].pc = "resolve"
             /\ \/ job'[i].pc = "fetch"
                \/ job'[i].pc = "returned" /\ job'[i].outcome = "nothing_new")
            => LET want == RowsNotOnDisk(job[i].TIC.val, job[i].tesscuts, files)
               IN  /\ job'[i].tesscuts = want
                   /\ (want = <<>>) <=> (job'[i].outcome = "nothing_new")
                   /\ (want # <<>>) <=> (job'[i].pc = "fetch")]_vars
    /\ [](\A i \in Jobs :
            job[i].outcome = "nothing_new" =>
                /\ job[i].pc = "returned"
                /\ job[i].fetchLog = <<>> /\ job[i].wrote = {} /\ job[i].lastTried = 0)

C12_Witness ==
    \E i \in Jobs :
        /\ job[i].pc = "write"
        /\ Len(job[i].sectors) = 3
        /\ Len(job[i].tesscuts) = 1
        /\ job[i].tesscuts[1] = catalog[job[i].TIC.val][3]

\* C13: a search that succeeds with no rows ends the call as a plain return:
\* that search was the only successful one and the last, nothing was
\* downloaded or written, nothing was raised; and no download is ever asked
\* for an empty list of rows.
C13_NoImagesIsSkip ==
    \A i \in Jobs :
        LET j == job[i] IN
        /\ (j.nSearch > j.nSearchFail /\ j.pc # "resolve" /\ Len(catalog[j.TIC.val]) = 0) =>
              /\ j.pc = "returned"
              /\ j.outcome = "no_images"
              /\ j.nSearch = j.nSearchFail + 1
              /\ j.sectors = <<>>
              /\ j.fetchLog = <<>> /\ j.wrote = {} /\ j.lastTried = 0
        /\ (j.pc = "fetch" \/ j.fetchLog # <<>>) => Len(j.tesscuts) > 0

C13_Witness ==
    \E i \in Jobs :
        /\ job[i].outcome = "no_images"
        /\ job[i].nSearchFail = 1
        /\ drv = "done"

\* C14: when one descriptor of a search result does not match
\* 'TESS Sector (\d+)', the call ends at resolution: no row of that result,
\* well-formed or not, is downloaded or written.
C14_ResolutionAtomic ==
    \A i \in Jobs :
        LET j == job[i]
            table == catalog[j.TIC.val]
        IN  (/\ j.nSearch > j.nSearchFail
             /\ j.pc # "resolve"
             /\ \E r \in 1..Len(table) : table[r].observation.head # SectorHead) =>
                /\ j.pc \in {"returned", "raised"}
                /\ j.outcome \in {"AttributeError:observation", "multiple_ids",
                                  "different_id", "AttributeError:targetid"}
                /\ j.fetchLog = <<>> /\ j.wrote = {} /\ j.lastTried = 0
                /\ j.tpfs = <<>>

C14_Witness ==
    \E i \in Jobs :
        /\ job[i].pc = "raised"
        /\ job[i].outcome = "AttributeError:observation"
        /\ Len(job[i].tesscuts) = 3
        /\ job[i].tesscuts[1].observation.head = SectorHead
        /\ job[i].tesscuts[2].observation.head # SectorHead

\* the call of entry i made alone on the disk the run started from
AloneFrom(i) ==
    RunAlone(job[i].TIC, [outdir |-> start.outdir, files |-> start.files, raised |-> FALSE])

DistinctTargets ==
    \A a, b \in 1..Len(TICs.val) : a # b => TICs.val[a] # TICs.val[b]

\* C15 as claimed: for a valid collection of distinct targets and a reliable
\* archive and disk, in every interleaving each call that ends has raised
\* exactly when it raises alone, and has written the files it writes alone
\* from the disk the run started with.
C15_IsolatedTargets ==
    (ValidCollection /\ DistinctTargets /\ ~faulty /\ run = 1) =>
        \A i \in Jobs :
            job[i].pc \in {"returned", "raised"} =>
                /\ (job[i].pc = "raised") <=> AloneFrom(i).raised
                /\ Names(start.files) \cup job[i].wrote = Names(AloneFrom(i).files)

\* the path call i is handing to to_fits
CurrentName(i) == PayloadName(i, job[i].k)

\* C16 as claimed: no two calls of a run are ever in their write loops on
\* the same output path, and no two calls have written the same path.
C16_NoSharedWritePath ==
    \A i, h \in Jobs :
        i # h =>
            /\ (job[i].pc = "write" /\ job[h].pc = "write") => CurrentName(i) # CurrentName(h)
            /\ job[i].wrote \cap job[h].wrote = {}

\* C16 amended: no two calls of a run that were given different TICs are
\* ever in their write loops on the same output path, and no two such calls
\* have written the same path.
C16_DistinctTargetsDisjointPaths ==
    \A i, h \in Jobs :
        (i # h /\ job[i].TIC # job[h].TIC) =>
            /\ (job[i].pc = "write" /\ job[h].pc = "write") => CurrentName(i) # CurrentName(h)
            /\ job[i].wrote \cap job[h].wrote = {}

C16_Witness ==
    /\ nThreads = 4
    /\ Cardinality(Jobs) >= 2
    /\ job[1].TIC # job[2].TIC
    /\ job[1].pc = "write" /\ job[2].pc = "write"
    /\ job[1].tpfs[job[1].k].sector = job[2].tpfs[job[2].k].sector

\* C17 as claimed: every call that download_tesscuts has started, for a
\* single string as for a collection, has had its progress line
\* (index+1)/total printed once, before its first step; a call not yet
\* started has none.
C17_MarkerForEveryTarget ==
    \A i \in Jobs :
        IF job[i].pc = "idle" THEN job[i].marker = <<>>
        ELSE job[i].marker = <<ProgressLine(i, Cardinality(Jobs))>>

\* C17 amended: for a collection, every started call has had its progress
\* line (index+1)/total printed once, before its first step, and a call not
\* yet started has none; for a single string no progress line is printed.
C17_MarkerForCollectionOnly ==
    \A i \in Jobs :
        IF TICs.type = "str" \/ job[i].pc = "idle" THEN job[i].marker = <<>>
        ELSE job[i].marker = <<ProgressLine(i, Len(TICs.val))>>

C17_Witness ==
    /\ TICs.type = "list"
    /\ Cardinality(Jobs) = 2
    /\ job[1].pc = "returned"
    /\ job[2].pc = "validate"
    /\ job[2].marker = <<ProgressLine(2, 2)>>

\* call i has been started and has not ended
Started(i) == i \in Jobs /\ job[i].pc \notin {"idle", "returned", "raised"}

\* call i has returned or raised, or download_tesscuts has been left by an
\* exception and its pool stopped
Ended(i) == (i \in Jobs /\ job[i].pc \in {"returned", "raised"}) \/ drv = "raised"

\* C18: a call never makes more than max_tries_MASTquery searches, more
\* than max_tries downloads or more than 5 to_fits calls for one payload,
\* and every call that has been started ends.
C18_Termination ==
    /\ [](\A i \in Jobs :
            /\ job[i].nSearch <= kwargs.max_tries_MASTquery
            /\ Len(job[i].fetchLog) <= kwargs.max_tries
            /\ job[i].nToFits <= WriteCap)
    /\ \A i \in 1..MaxTargets : Started(i) ~> Ended(i)

C18_Witness ==
    \E i \in Jobs :
        /\ job[i].pc = "returned"
        /\ job[i].outcome = "write_exhausted"
        /\ job[i].nSearch = kwargs.max_tries_MASTquery
        /\ Len(job[i].fetchLog) = kwargs.max_tries
        /\ kwargs.max_tries = MaxCap /\ kwargs.max_tries_MASTquery = MaxCap
        /\ job[i].nToFits = WriteCap
        /\ job[i].k = 2

\* C19: a call downloads only after one search has succeeded, the identity
\* check has passed and the dedup has left rows to request; it calls
\* to_fits only after a download has succeeded; once it downloads it never
\* searches again, and once it writes it never downloads again.
C19_PhaseOrder ==
    /\ [](\A i \in Jobs :
            LET j == job[i]
                table == catalog[j.TIC.val]
            IN  /\ (j.pc = "fetch" \/ j.fetchLog # <<>>) =>
                      /\ j.nSearch = j.nSearchFail + 1
                      /\ \A r \in 1..Len(table) :
                            /\ table[r].targetid.head = TicHead
                            /\ table[r].targetid.num = j.TIC.val
                      /\ Len(j.sectors) = Len(table)
                      /\ j.tesscuts # <<>>
                /\ (j.pc = "write" \/ j.lastTried > 0 \/ j.wrote # {}) =>
                      /\ j.fetchLog # <<>>
                      /\ j.fetchLog[Len(j.fetchLog)] = "ok"
                      /\ j.tpfs # <<>>)
    /\ [][\A i \in (DOMAIN job) \cap (DOMAIN job') :
            /\ (job[i].pc \in {"fetch", "write"} \/ job[i].fetchLog # <<>>) =>
                  job'[i].nSearch = job[i].nSearch
            /\ (job[i].pc = "write" \/ job[i].lastTried > 0) =>
                  job'[i].fetchLog = job[i].fetchLog]_vars

C19_Witness ==
    \E i \in Jobs :
        /\ job[i].pc = "returned"
        /\ job[i].outcome = "saved"
        /\ job[i].nSearchFail = 1
        /\ job[i].fetchLog = <<"HTTPError", "ok">>
        /\ Len(job[i].tpfs) = 2
        /\ job[i].failedWrite

\* C20: with overwrite=False every file that was under outputdir before
\* the first run is still there with its content, whatever the runs did, and
\* no call has written a path that held a file then.
C20_OldFilesUntouched ==
    ~kwargs.overwrite =>
        /\ \A f \in start.files : f \in files
        /\ \A i \in Jobs : job[i].wrote \cap Names(start.files) = {}

C20_Witness ==
    /\ ~kwargs.overwrite
    /\ drv = "done"
    /\ \E i \in Jobs :
        /\ job[i].outcome = "write_exhausted"
        /\ job[i].nToFits = WriteCap
        /\ job[i].k = 2
        /\ CurrentName(i) \in Names(start.files)
        /\ job[i].wrote # {}

====
